---- MODULE Spec2Model ----
(***************************************************************************)
(* Model of the perf-tuning search engine of OLive                         *)
(* (docker-images/perf-tuning/src/perf_tuning.py):                         *)
(*   - run_perf_tuning_binary, the bounded thread-count search;            *)
(*   - run_perf_tuning, the trial runner (warm-up, measured run, parse,    *)
(*     optional profiling run);                                            *)
(*   - get_env_var_combos / gen_env_var_dict, the environment sweep.       *)
(*                                                                         *)
(* Conventions.  A Python Optional value is a sequence of length 0 or 1:   *)
(* None is <<>> and the number v is <<v>>.  Latencies are elapsed times of *)
(* a model inference and therefore strictly positive integers (a unit of   *)
(* time of the reader's choice); an average is such a number too.          *)
(***************************************************************************)
EXTENDS Integers, Sequences, FiniteSets, TLC

(***************************************************************************)
(* Bounds of the model.                                                    *)
(***************************************************************************)
\* largest thread ceiling (num_cores) of a search whose probes are free
MaxCores == 13
\* largest average latency a free probe reports
MaxLat == 3
\* largest thread ceiling of a search driven by an injected latency function
MaxInjCores == 9
\* largest value of an arbitrary injected latency function
MaxInjLat == 2
\* largest value of a strictly convex injected latency function
MaxConvexLat == 8

\* most lines of an output file of the benchmark
MaxLines == 2
\* largest latency of a record of an output file
MaxFileLat == 2
\* most environment variables of a provider
MaxVars == 2
\* most candidate values of an environment variable
MaxOpts == 2
\* largest average latency a trial of a whole run reports
MaxMainLat == 2
\* largest number of trials kept per provider (args.top_n)
MaxTopN == 2
\* most PerfTestParams made in a run whose dictionaries are followed
MaxTrials == 3
\* largest thread count a probe or a candidate of such a run sets
MaxEnvThreads == 3
\* most latency samples of the trial whose report record is written
MaxSamples == 21

\* float("inf"), the initial best_latency
Inf == 1000000

None == <<>>
Some(v) == <<v>>

VARIABLES
    \* ---- run_perf_tuning_binary ----
    pc,                 \* position in run_perf_tuning_binary
    num_cores,          \* argument num_cores
    is_omp,             \* argument is_omp
    lower, upper, mid,  \* the window and the last midpoint
    best_run,           \* best thread count so far, -1 when none
    best_latency,       \* latency of best_run
    rerun,              \* the local flag rerun
    failed_tests,       \* argument failed_tests (a list the caller owns)
    successful_tests,   \* argument successful_tests (a list the caller owns)
    ret,                \* the returned value, None before the return
    \* ---- how the probes of this search answer ----
    mode,               \* "free", "main": any outcome; "injected": inj decides
    inj,                \* the injected latency function, thread count -> average
    \* ---- history ----
    probes,             \* every call of run_perf_tuning made by the search
    reruns,             \* how often lines 286-288 (the window reset) ran
    failed_in,          \* failed_tests as it was at the call
    successful_in,      \* successful_tests as it was at the call
    \* ---- run_perf_tuning ----
    rpc,                \* position in run_perf_tuning
    percentiles,        \* argument percentiles
    result_file,        \* the file at result_file: None, or who wrote it and its lines
    returncode,         \* perf_tuning.returncode of the last execution
    latencies,          \* the local list latencies
    t_avg,              \* test_params.avg
    t_latencies,        \* test_params.latencies, None while the attribute is unset
    t_command,          \* test_params.command
    monitor,            \* the resource sampler: "none", "running", "stopped"
    launches,           \* the executions launched so far, in order
    error,              \* the exception that left run_perf_tuning, "none" if none
    measured_rc,        \* the exit code of the measured execution
    measured_out,       \* what the measured execution wrote, None if nothing
    parsed_from,        \* who wrote the file that lines 164-169 read
    warmup_records,     \* how many five-field records the warm-up execution wrote
    \* ---- the environment sweep of __main__ ----
    cpc,                \* position in lines 471-527
    env_vars,           \* ep_envvar_map.get(build_name)
    env_var_combos,     \* the list get_env_var_combos returned
    env_names,          \* list(env_vars.keys()), [] when env_vars is None
    combo_idx,          \* the position of the loop of line 475
    envs,               \* the dictionary gen_env_var_dict gave for each combination
    \* ---- __main__: the providers, their candidates and the report ----
    mpc,                \* position in lines 436-592
    providers,          \* the requested providers, in order (line 417)
    parallel,           \* args.parallel
    inter_op_num_threads,   \* int(args.inter_op_num_threads)
    intra_op_num_threads,   \* int(args.intra_op_num_threads)
    top_n,              \* int(args.top_n)
    ep_envvar_map,      \* provider -> its environment variables, None if none
    build_idx,          \* the position of the loop of line 439
    best_inter_op_num_threads,  \* the local of line 456
    tests,              \* the candidates of the provider at hand (line 454)
    test_idx,           \* the position of the loop of line 530
    successful_by_ep,   \* provider -> its retained trials (line 436)
    profile_candidates, \* the providers whose best trial is queued (line 437)
    prof_idx,           \* the position of the loop of line 542
    out_json,           \* the report, None until it is written
    marks,              \* len(failed) when each provider's turn began
    trace,              \* the trials run and the selections made, in order
    \* ---- PerfTestParams and the dictionaries of environment variables ----
    dicts,              \* the dictionaries made so far; dicts[1] is os.environ
    environ0,           \* os.environ as it was at the start
    windows,            \* is_windows()
    env,                \* the dictionary `env` of line 477 (its place in dicts)
    template,           \* the trial passed to the search (its place in trials)
    threading,          \* how the search applies a thread count
    trials,             \* the PerfTestParams made so far
    \* ---- one record of the report ----
    qpc,                \* position in lines 564-577
    q_latencies,        \* test.latencies of the trial reported
    json_record         \* the record written, None before

tvars == <<pc, num_cores, is_omp, lower, upper, mid, best_run, best_latency,
           rerun, failed_tests, successful_tests, ret, mode, inj, probes,
           reruns, failed_in, successful_in>>

rvars == <<rpc, percentiles, result_file, returncode, latencies, t_avg,
           t_latencies, t_command, monitor, launches, error, measured_rc,
           measured_out, parsed_from, warmup_records>>

cvars == <<cpc, env_vars, env_var_combos, env_names, combo_idx, envs>>

mvars == <<mpc, providers, parallel, inter_op_num_threads, intra_op_num_threads,
           top_n, ep_envvar_map, build_idx, best_inter_op_num_threads, tests, test_idx,
           successful_by_ep, profile_candidates, prof_idx, out_json, marks,
           trace>>

hvars == <<dicts, environ0, windows, env, template, threading, trials>>

qvars == <<qpc, q_latencies, json_record>>

xvars == <<hvars, qvars>>

vars == <<tvars, rvars, cvars, mvars, xvars>>

(***************************************************************************)
(* run_perf_tuning_binary                                                  *)
(***************************************************************************)

\* Python's truth value of param.avg: None and 0 are false
Truthy(a) == a # None /\ a[1] # 0

\* line 210: the ceiling of the probed window
InitialUpperNoReserve(n, omp) == n

InitialUpperOffByOne(n, omp) == IF omp THEN n + 1 ELSE n

InitialUpper(n, omp) == IF omp THEN n ELSE n - 1

\* lines 211 and 249: floor midpoint (Python // rounds down, as \div does)
Midpoint(lo, hi) == lo + (hi - lo) \div 2

\* line 275: the probe is worse than the best so far
WorseInverted(best, avg) == best > avg

WorseNever(best, avg) == FALSE

Worse(best, avg) == best < avg

\* lines 284 and 286: the thread count whose being best triggers the re-run
RerunPivot(n) == (1 + n) \div 2

\* line 284: the re-run condition, on the values after the probe
RerunConditionAlways(lo, hi, best, n, done) == lo > hi

RerunCondition(lo, hi, best, n, done) == lo > hi /\ best = RerunPivot(n) /\ ~done

\* lines 281-283: `break` ends the search after a failed probe of the loop
AfterFailedProbeContinues == "loop"

AfterFailedProbe == "done"

\* line 239: `return best_run` ends the search after a failed baseline
AfterFailedBaselineContinues == "loop"

AfterFailedBaseline == "done"

\* PerfTestParams of a probe after run_perf_tuning: its name is the template's
\* name, str(threads) and the suffix, so inside one search threads names it
Param(t, a) == [threads |-> t, avg |-> a]

\* a trial that an earlier search of the same provider left in a list
PriorParam(a) == [threads |-> 0, avg |-> a]

\* the values run_perf_tuning can leave in param.avg (lines 201-204)
FreeOutcomes == {None} \cup {Some(v) : v \in 1..MaxLat}

\* the same for a search that is part of a whole run
MainOutcomes == {None} \cup {Some(v) : v \in 1..MaxMainLat}

Outcomes(t) ==
    IF mode = "free" THEN FreeOutcomes
    ELSE IF mode = "main" THEN MainOutcomes
    ELSE {inj[t]}

\* lines 209-215
Begin ==
    /\ pc = "call"
    /\ lower' = 2
    /\ upper' = InitialUpper(num_cores, is_omp)
    /\ mid' = Midpoint(2, InitialUpper(num_cores, is_omp))
    /\ best_run' = -1
    /\ IF 2 > InitialUpper(num_cores, is_omp)
         THEN /\ ret' = Some(-1)
              /\ pc' = "done"
              /\ UNCHANGED best_latency
         ELSE /\ best_latency' = Inf
              /\ pc' = "baseline"
              /\ UNCHANGED ret
    /\ UNCHANGED <<num_cores, is_omp, rerun, failed_tests, successful_tests,
                   mode, inj, probes, reruns, failed_in, successful_in>>
    /\ UNCHANGED <<rvars, cvars, mvars, xvars>>

\* lines 217-247: the baseline probe at lower
Baseline ==
    /\ pc = "baseline"
    /\ \E a \in Outcomes(lower) :
         /\ probes' = Append(probes, [threads |-> lower, avg |-> a, rerun |-> FALSE])
         /\ IF ~Truthy(a)
              THEN /\ failed_tests' = Append(failed_tests, Param(lower, a))
                   /\ ret' = Some(best_run)
                   /\ pc' = AfterFailedBaseline
                   /\ UNCHANGED <<successful_tests, best_latency, best_run,
                                  lower, rerun>>
              ELSE /\ successful_tests' = Append(successful_tests, Param(lower, a))
                   /\ best_latency' = a[1]
                   /\ best_run' = lower
                   /\ lower' = lower + 1
                   /\ rerun' = FALSE
                   /\ pc' = "loop"
                   /\ UNCHANGED <<failed_tests, ret>>
    /\ UNCHANGED <<num_cores, is_omp, upper, mid, mode, inj, reruns,
                   failed_in, successful_in>>
    /\ UNCHANGED <<rvars, cvars, mvars, xvars>>

\* line 248 false, then line 289
LoopExit ==
    /\ pc = "loop"
    /\ ~(lower <= upper)
    /\ ret' = Some(best_run)
    /\ pc' = "done"
    /\ UNCHANGED <<num_cores, is_omp, lower, upper, mid, best_run, best_latency,
                   rerun, failed_tests, successful_tests, mode, inj, probes,
                   reruns, failed_in, successful_in>>
    /\ UNCHANGED <<rvars, cvars, mvars, xvars>>

\* lines 248-252, then line 289: the midpoint is the baseline's thread count
Break ==
    /\ pc = "loop"
    /\ lower <= upper
    /\ Midpoint(lower, upper) = 2
    /\ mid' = 2
    /\ ret' = Some(best_run)
    /\ pc' = "done"
    /\ UNCHANGED <<num_cores, is_omp, lower, upper, best_run, best_latency,
                   rerun, failed_tests, successful_tests, mode, inj, probes,
                   reruns, failed_in, successful_in>>
    /\ UNCHANGED <<rvars, cvars, mvars, xvars>>

\* lines 248-288: one iteration that probes the midpoint
Probe ==
    /\ pc = "loop"
    /\ lower <= upper
    /\ Midpoint(lower, upper) # 2
    /\ LET m == Midpoint(lower, upper) IN
       \E a \in Outcomes(m) :
         /\ mid' = m
         /\ probes' = Append(probes, [threads |-> m, avg |-> a, rerun |-> rerun])
         /\ IF Truthy(a)
              THEN LET worse == Worse(best_latency, a[1])
                       hi1   == IF worse THEN m - 1 ELSE upper
                       lo1   == IF worse THEN lower ELSE m + 1
                       best1 == IF worse THEN best_run ELSE m
                       again == RerunCondition(lo1, hi1, best1, num_cores, rerun)
                   IN  /\ successful_tests' = Append(successful_tests, Param(m, a))
                       /\ best_latency' = IF worse THEN best_latency ELSE a[1]
                       /\ best_run' = best1
                       /\ upper' = IF again THEN RerunPivot(num_cores) - 1 ELSE hi1
                       /\ lower' = IF again THEN 2 ELSE lo1
                       /\ rerun' = (rerun \/ again)
                       /\ reruns' = IF again THEN reruns + 1 ELSE reruns
                       /\ UNCHANGED <<failed_tests, ret, pc>>
              ELSE /\ failed_tests' = Append(failed_tests, Param(m, a))
                   /\ ret' = Some(best_run)
                   /\ pc' = AfterFailedProbe
                   /\ UNCHANGED <<successful_tests, best_latency, best_run,
                                  upper, lower, rerun, reruns>>
    /\ UNCHANGED <<num_cores, is_omp, mode, inj, failed_in, successful_in>>
    /\ UNCHANGED <<rvars, cvars, mvars, xvars>>

NextTuner == Begin \/ Baseline \/ LoopExit \/ Break \/ Probe

\* run_perf_tuning is not running
RunnerIdle ==
    /\ rpc = "idle"
    /\ percentiles = FALSE
    /\ result_file = None
    /\ returncode = 0
    /\ latencies = <<>>
    /\ t_avg = None
    /\ t_latencies = None
    /\ t_command = None
    /\ monitor = "none"
    /\ launches = <<>>
    /\ error = "none"
    /\ measured_rc = 0
    /\ measured_out = None
    /\ parsed_from = "none"
    /\ warmup_records = 0

\* the environment sweep is not running
SweepIdle ==
    /\ cpc = "idle"
    /\ env_vars = None
    /\ env_var_combos = <<>>
    /\ env_names = <<>>
    /\ combo_idx = 0
    /\ envs = <<>>

\* no PerfTestParams is being made
EnvIdle ==
    /\ dicts = <<>>
    /\ environ0 = <<>>
    /\ windows = FALSE
    /\ env = None
    /\ template = 0
    /\ threading = "none"
    /\ trials = <<>>

\* no record of the report is being written
RecordIdle ==
    /\ qpc = "idle"
    /\ q_latencies = <<>>
    /\ json_record = None

\* __main__ is not running
MainIdle ==
    /\ mpc = "idle"
    /\ providers = <<>>
    /\ parallel = FALSE
    /\ inter_op_num_threads = 0
    /\ intra_op_num_threads = 0
    /\ top_n = 0
    /\ ep_envvar_map = <<>>
    /\ build_idx = 0
    /\ best_inter_op_num_threads = 0
    /\ tests = <<>>
    /\ test_idx = 0
    /\ successful_by_ep = <<>>
    /\ profile_candidates = <<>>
    /\ prof_idx = 0
    /\ out_json = None
    /\ marks = <<>>
    /\ trace = <<>>

\* run_perf_tuning_binary is not running
TunerIdle ==
    /\ pc = "idle"
    /\ num_cores = 0
    /\ is_omp = FALSE
    /\ lower = 0 /\ upper = 0 /\ mid = 0
    /\ best_run = 0 /\ best_latency = 0
    /\ rerun = FALSE
    /\ failed_tests = <<>>
    /\ successful_tests = <<>>
    /\ ret = None
    /\ mode = "free"
    /\ inj = <<>>
    /\ probes = <<>>
    /\ reruns = 0
    /\ failed_in = <<>>
    /\ successful_in = <<>>

InitTunerCommon ==
    /\ pc = "call"
    /\ is_omp \in BOOLEAN
    /\ lower = 0 /\ upper = 0 /\ mid = 0
    /\ best_run = 0 /\ best_latency = 0
    /\ rerun = FALSE
    /\ ret = None
    /\ probes = <<>>
    /\ reruns = 0

\* a search whose probes may each fail or report any latency
InitFree ==
    /\ num_cores \in 0..MaxCores
    /\ failed_tests \in {<<>>, <<PriorParam(None)>>}
    /\ successful_tests \in {<<>>, <<PriorParam(Some(1))>>}
    /\ InitTunerCommon
    /\ failed_in = failed_tests
    /\ successful_in = successful_tests
    /\ mode = "free"
    /\ inj = <<>>
    /\ RunnerIdle
    /\ SweepIdle
    /\ MainIdle
    /\ EnvIdle
    /\ RecordIdle

Spec == InitFree /\ [][NextTuner]_vars

\* the same search when each probe terminates: the code is sequential, so a
\* step that can be taken is taken
SpecFair == InitFree /\ [][NextTuner]_vars /\ WF_vars(NextTuner)

(***************************************************************************)
(* Injected latency functions: every probe succeeds and reports inj[t].    *)
(***************************************************************************)

\* every function from the window to 1..MaxInjLat
AnyFunctions(hi) == [2..hi -> {Some(v) : v \in 1..MaxInjLat}]

RECURSIVE ConvexExt(_, _)
\* the sequences of S extended k times, the differences strictly increasing
ConvexExt(S, k) ==
    IF k <= 0 THEN S
    ELSE ConvexExt(UNION {{Append(s, v) :
                            v \in {w \in 1..MaxConvexLat :
                                     \/ Len(s) < 2
                                     \/ w - s[Len(s)] > s[Len(s)] - s[Len(s) - 1]}}
                          : s \in S}, k - 1)

\* every strictly convex function from the window to 1..MaxConvexLat
ConvexFunctions(hi) ==
    {[t \in 2..hi |-> Some(s[t - 1])] : s \in ConvexExt({<<>>}, hi - 1)}

\* the end-to-end scenario {2:12, 3:9, 4:7, 5:6, 6:6.5, 7:8, 8:10} ms, in half
\* milliseconds
ScenarioLatency == [t \in 2..8 |->
    Some(CASE t = 2 -> 24 [] t = 3 -> 18 [] t = 4 -> 14 [] t = 5 -> 12
           [] t = 6 -> 13 [] t = 7 -> 16 [] OTHER -> 20)]

InjectedFunctions(hi) ==
    AnyFunctions(hi) \cup ConvexFunctions(hi)
        \cup (IF hi = 8 THEN {ScenarioLatency} ELSE {})

\* a search whose probes all succeed and report an injected latency function
InitInjected ==
    /\ num_cores \in 0..MaxInjCores
    /\ failed_tests = <<>>
    /\ successful_tests = <<>>
    /\ InitTunerCommon
    /\ failed_in = failed_tests
    /\ successful_in = successful_tests
    /\ mode = "injected"
    /\ inj \in InjectedFunctions(InitialUpper(num_cores, is_omp))
    /\ RunnerIdle
    /\ SweepIdle
    /\ MainIdle
    /\ EnvIdle
    /\ RecordIdle

SpecInjected == InitInjected /\ [][NextTuner]_vars

(***************************************************************************)
(* Claims about run_perf_tuning_binary                                     *)
(***************************************************************************)

\* the ceiling of the window as the specification states it: num_cores in
\* native-threading mode, num_cores - 1 otherwise
WindowTop == IF is_omp THEN num_cores ELSE num_cores - 1

\* the injected latency at thread count t
F(t) == inj[t][1]

StrictlyConvex == \A t \in 3..(WindowTop - 1) : F(t - 1) + F(t + 1) > 2 * F(t)

ArgMin == {t \in 2..WindowTop : \A u \in 2..WindowTop : F(t) <= F(u)}

\* C1: for every thread ceiling and every latency function that is strictly
\* convex on the probed window [2, upper], with every probe succeeding, the
\* search returns the thread count of the minimum.
C1_ConvexReturnsMinimum ==
    (mode = "injected" /\ pc = "done" /\ WindowTop >= 2 /\ StrictlyConvex)
        => ret[1] \in ArgMin

\* C2: whenever the window is empty (2 > upper) the search returns -1, never
\* invokes the trial runner and adds nothing to the failed or successful list.
C2_EmptyWindowReturnsMinusOne ==
    (2 > WindowTop) =>
        /\ probes = <<>>
        /\ failed_tests = failed_in
        /\ successful_tests = successful_in
        /\ pc \in {"call", "done"}
        /\ pc = "done" => ret = Some(-1)

C2_Witness ==
    2 > WindowTop /\ pc = "done" /\ ret = Some(-1) /\ failed_in # <<>>
        /\ num_cores = 2

\* C3: for every non-empty window, if the baseline probe at thread count 2
\* reports no average latency, the search returns -1, records exactly that one
\* failed trial, records no successful trial and makes no further probe.
C3_BaselineFailureAborts ==
    (WindowTop >= 2 /\ Len(probes) >= 1 /\ probes[1].avg = None) =>
        /\ pc = "done"
        /\ ret = Some(-1)
        /\ probes = <<[threads |-> 2, avg |-> None, rerun |-> FALSE]>>
        /\ failed_tests = Append(failed_in, [threads |-> 2, avg |-> None])
        /\ successful_tests = successful_in

C3_Witness ==
    /\ WindowTop >= 4
    /\ pc = "done"
    /\ Len(probes) = 1 /\ probes[1].avg = None
    /\ Len(failed_tests) = Len(failed_in) + 1

IsScenario == mode = "injected" /\ ~is_omp /\ num_cores = 9 /\ inj = ScenarioLatency

\* C4 as stated: in the scenario (provider cpu, window [2,8], the latencies of
\* ScenarioLatency) the search returns 5 or 6 and invokes the trial runner at
\* most 4 times, baseline and re-run probes included.
C4_ScenarioWithinFourRuns ==
    (IsScenario /\ pc = "done") => (ret[1] \in {5, 6} /\ Len(probes) <= 4)

\* C4 as amended: in the scenario the search returns 5 or 6 and invokes the
\* trial runner at most 5 times, baseline and re-run probes included.
C4_ScenarioWithinFiveRuns ==
    (IsScenario /\ pc = "done") => (ret[1] \in {5, 6} /\ Len(probes) <= 5)

C4_Witness ==
    /\ IsScenario /\ pc = "done" /\ ret = Some(5)
    /\ [i \in 1..Len(probes) |-> probes[i].threads] = <<2, 5, 7, 6, 3>>
    /\ reruns = 1

\* the floor midpoint of the original window [2, upper]
WindowMid == 2 + (WindowTop - 2) \div 2

Plateau ==
    /\ WindowMid - 1 >= 2
    /\ WindowMid + 1 <= WindowTop
    /\ F(WindowMid - 1) = F(WindowMid)
    /\ F(WindowMid + 1) = F(WindowMid)

\* C5: for every latency function that is equal at the floor midpoint of the
\* original window and at both its neighbours, with all probes succeeding, the
\* search performs exactly one re-run, and every probe made after the re-run
\* starts has a thread count in the lower half of the original window.
C5_PlateauOneRerun ==
    (mode = "injected" /\ pc = "done" /\ Plateau) =>
        /\ reruns = 1
        /\ \A i \in 1..Len(probes) :
             probes[i].rerun => probes[i].threads \in 2..WindowMid

\* C6: for every non-empty window and every pattern of probe successes and
\* failures, the returned value is -1 or a thread count in [2, upper], and it is
\* -1 exactly when the baseline probe at 2 failed.
C6_ReturnInWindow ==
    (WindowTop >= 2 /\ pc = "done") =>
        /\ ret[1] \in {-1} \cup 2..WindowTop
        /\ (ret[1] = -1) <=> (probes[1].avg = None)

C6_Witness ==
    /\ pc = "done" /\ WindowTop >= 6
    /\ ret[1] > 2 /\ ret[1] < WindowTop
    /\ probes[Len(probes)].avg = None

(***************************************************************************)
(* run_perf_tuning                                                         *)
(*                                                                         *)
(* A line of the output file is [ntok, num, lat]: the number of fields     *)
(* line.split(",") gives, whether float() accepts the second field, and    *)
(* the latency it then yields (in units of 10^-9 s, the precision of the   *)
(* rounding of line 202).                                                  *)
(***************************************************************************)

\* a line without five fields, a five-field record, a five-field line whose
\* second field is no number
ShortLine == [ntok |-> 4, num |-> FALSE, lat |-> 0]
Record(v) == [ntok |-> 5, num |-> TRUE, lat |-> v]
HeaderLine == [ntok |-> 5, num |-> FALSE, lat |-> 0]

Lines == {ShortLine, HeaderLine} \cup {Record(v) : v \in 1..MaxFileLat}

RECURSIVE SeqsUpTo(_, _)
\* the sequences over S of length at most n
SeqsUpTo(S, n) ==
    IF n = 0 THEN {<<>>}
    ELSE LET shorter == SeqsUpTo(S, n - 1) IN
         shorter \cup {Append(q, x) : q \in {r \in shorter : Len(r) = n - 1}, x \in S}

\* what one execution of the benchmark can write: nothing, or a file
Outputs == {None} \cup {Some(ls) : ls \in SeqsUpTo(Lines, MaxLines)}

\* the file at result_file after an execution by `who` that wrote `out`
Written(file, out, who) ==
    IF out = None THEN file ELSE Some([writer |-> who, lines |-> out[1]])

\* lines 20-22: remove(file)
RemoveKeeps(file) == file

Remove(file) == None

\* line 168: the line is a five-field record
IsRecord(line) == line.ntok = 5

\* line 169: float(tokens[1]) raises ValueError
FloatRaises(ls) == \E i \in 1..Len(ls) : IsRecord(ls[i]) /\ ~ls[i].num

\* lines 165-169: the latencies of the five-field lines, in file order
ParseLines(ls) ==
    LET acc[i \in 0..Len(ls)] ==
          IF i = 0 THEN <<>>
          ELSE IF IsRecord(ls[i]) THEN Append(acc[i - 1], ls[i].lat) ELSE acc[i - 1]
    IN  acc[Len(ls)]

\* line 197: latencies.sort()
SortAscending(q) ==
    LET Insert(r, x) ==
          LET k == Cardinality({j \in 1..Len(r) : r[j] <= x}) IN
          SubSeq(r, 1, k) \o <<x>> \o SubSeq(r, k + 1, Len(r))
        acc[i \in 0..Len(q)] == IF i = 0 THEN <<>> ELSE Insert(acc[i - 1], q[i])
    IN  acc[Len(q)]

SumSeq(q) ==
    LET acc[i \in 0..Len(q)] == IF i = 0 THEN 0 ELSE acc[i - 1] + q[i]
    IN  acc[Len(q)]

\* round(num / den) to the nearest integer, ties to even, as Python's round
RoundHalfEven(num, den) ==
    LET q == num \div den
        r == num % den
    IN  IF 2 * r < den THEN q
        ELSE IF 2 * r > den THEN q + 1
        ELSE IF q % 2 = 0 THEN q ELSE q + 1

\* lines 201-204: the mean rounded to 9 decimals, times 1000; None when empty
AverageOf(q) ==
    IF Len(q) > 0 THEN Some(RoundHalfEven(SumSeq(q), Len(q)) * 1000) ELSE None

\* line 163: the measured run succeeded and its output file is there
MeasuredOkFileOnly(rc, file) == file # None

MeasuredOk(rc, file) == rc = 0 /\ file # None

\* lines 149-160: the warm-up execution and the removal of what it wrote
RunWarmup ==
    /\ rpc = "call"
    /\ \E rc \in {0, 1}, out \in Outputs :
         /\ result_file' = Remove(Written(result_file, out, "warmup"))
         /\ returncode' = rc
         /\ warmup_records' = IF out = None THEN 0 ELSE Len(ParseLines(out[1]))
    /\ launches' = Append(launches, IF percentiles THEN "percentiles" ELSE "plain")
    /\ t_command' = IF t_command = None
                      THEN Some(IF percentiles THEN "percentiles" ELSE "plain")
                      ELSE t_command
    /\ rpc' = "measured"
    /\ UNCHANGED <<percentiles, latencies, t_avg, t_latencies, monitor, error,
                   measured_rc, measured_out, parsed_from>>
    /\ UNCHANGED <<tvars, cvars, mvars, xvars>>

\* lines 161-162: the measured execution
RunMeasured ==
    /\ rpc = "measured"
    /\ \E rc \in {0, 1}, out \in Outputs :
         /\ result_file' = Written(result_file, out, "measured")
         /\ returncode' = rc
         /\ measured_rc' = rc
         /\ measured_out' = out
    /\ launches' = Append(launches, IF percentiles THEN "percentiles" ELSE "plain")
    /\ latencies' = <<>>
    /\ rpc' = "parse"
    /\ UNCHANGED <<percentiles, t_avg, t_latencies, t_command, monitor, error,
                   parsed_from>>
    /\ UNCHANGED <<tvars, cvars, mvars, xvars, warmup_records>>

\* lines 163-171: the output file is read when the measured run succeeded
ParseOutput ==
    /\ rpc = "parse"
    /\ IF MeasuredOk(returncode, result_file)
         THEN /\ parsed_from' = result_file[1].writer
              /\ IF FloatRaises(result_file[1].lines)
                   THEN /\ error' = "ValueError"
                        /\ rpc' = "raised"
                        /\ UNCHANGED latencies
                   ELSE /\ latencies' = ParseLines(result_file[1].lines)
                        /\ rpc' = IF percentiles THEN "monitor" ELSE "finish"
                        /\ UNCHANGED error
         ELSE /\ rpc' = "finish"
              /\ UNCHANGED <<latencies, error, parsed_from>>
    /\ UNCHANGED <<percentiles, result_file, returncode, t_avg, t_latencies,
                   t_command, monitor, launches, measured_rc, measured_out>>
    /\ UNCHANGED <<tvars, cvars, mvars, xvars, warmup_records>>

\* lines 173-174: Monitor(latencies[0]) starts the sampler
StartMonitor ==
    /\ rpc = "monitor"
    /\ IF Len(latencies) = 0
         THEN /\ error' = "IndexError"
              /\ rpc' = "raised"
              /\ UNCHANGED monitor
         ELSE /\ monitor' = "running"
              /\ rpc' = "profile"
              /\ UNCHANGED error
    /\ UNCHANGED <<percentiles, result_file, returncode, latencies, t_avg,
                   t_latencies, t_command, launches, measured_rc, measured_out,
                   parsed_from>>
    /\ UNCHANGED <<tvars, cvars, mvars, xvars, warmup_records>>

\* lines 175-177: the profiling execution, which writes result_file again
RunProfile ==
    /\ rpc = "profile"
    /\ \E rc \in {0, 1}, out \in Outputs :
         /\ result_file' = Written(result_file, out, "profile")
         /\ returncode' = rc
    /\ launches' = Append(launches, "profile")
    /\ rpc' = "stop"
    /\ UNCHANGED <<percentiles, latencies, t_avg, t_latencies, t_command,
                   monitor, error, measured_rc, measured_out, parsed_from>>
    /\ UNCHANGED <<tvars, cvars, mvars, xvars, warmup_records>>

\* lines 178-193: the sampler is stopped and its samples are averaged
StopMonitor ==
    /\ rpc = "stop"
    /\ monitor' = "stopped"
    /\ rpc' = "finish"
    /\ UNCHANGED <<percentiles, result_file, returncode, latencies, t_avg,
                   t_latencies, t_command, launches, error, measured_rc,
                   measured_out, parsed_from>>
    /\ UNCHANGED <<tvars, cvars, mvars, xvars, warmup_records>>

\* lines 195-206: the file is removed, the latencies sorted and averaged
Finish ==
    /\ rpc = "finish"
    /\ result_file' = Remove(result_file)
    /\ latencies' = SortAscending(latencies)
    /\ t_latencies' = Some(SortAscending(latencies))
    /\ t_avg' = AverageOf(SortAscending(latencies))
    /\ rpc' = "returned"
    /\ UNCHANGED <<percentiles, returncode, t_command, monitor, launches, error,
                   measured_rc, measured_out, parsed_from>>
    /\ UNCHANGED <<tvars, cvars, mvars, xvars, warmup_records>>

\* lines 155, 161 and 175: subprocess.run cannot launch the benchmark and
\* raises OSError, which nothing in run_perf_tuning catches
LaunchFails ==
    /\ rpc \in {"call", "measured", "profile"}
    /\ error' = "OSError"
    /\ rpc' = "raised"
    /\ UNCHANGED <<percentiles, result_file, returncode, latencies, t_avg,
                   t_latencies, t_command, monitor, launches, measured_rc,
                   measured_out, parsed_from>>
    /\ UNCHANGED <<tvars, cvars, mvars, xvars, warmup_records>>

NextRunner ==
    \/ RunWarmup \/ RunMeasured \/ ParseOutput \/ StartMonitor \/ RunProfile
    \/ StopMonitor \/ Finish \/ LaunchFails

\* one call of run_perf_tuning, on a new trial or on one that ran before
InitRunner ==
    /\ rpc = "call"
    /\ percentiles \in BOOLEAN
    /\ result_file = None
    /\ returncode = 0
    /\ latencies = <<>>
    /\ \/ t_avg = None /\ t_latencies = None /\ t_command = None
       \/ t_avg = AverageOf(<<1>>) /\ t_latencies = Some(<<1>>)
            /\ t_command = Some("plain")
    /\ monitor = "none"
    /\ launches = <<>>
    /\ error = "none"
    /\ measured_rc = 0
    /\ measured_out = None
    /\ parsed_from = "none"
    /\ warmup_records = 0
    /\ TunerIdle
    /\ SweepIdle
    /\ MainIdle
    /\ EnvIdle
    /\ RecordIdle

SpecRunner == InitRunner /\ [][NextRunner]_vars

(***************************************************************************)
(* Claims about run_perf_tuning                                            *)
(***************************************************************************)

\* the lines the measured execution left to be read: those it wrote when it
\* exited with 0, none otherwise
MeasuredLines ==
    IF measured_rc = 0 /\ measured_out # None THEN measured_out[1] ELSE <<>>

\* the five-field latency records among the lines of the measured execution
MeasuredRecords ==
    {i \in 1..Len(MeasuredLines) :
        MeasuredLines[i].ntok = 5 /\ MeasuredLines[i].num}

\* C9: after run_perf_tuning, with or without percentiles, avg is null exactly
\* when the measured run exited non-zero, or its output file is missing, or zero
\* five-field latency records were parsed; a zero exit with an output file that
\* holds no parsable record gives avg null and not a crash.
C9_AvgNullIffNoSamples ==
    /\ rpc = "returned" =>
         ((t_avg = None) <=>
            (measured_rc # 0 \/ measured_out = None \/ MeasuredRecords = {}))
    /\ (measured_rc = 0 /\ measured_out # None /\ MeasuredRecords = {})
         => rpc # "raised"

\* C10: the latencies and the average that run_perf_tuning records come only
\* from what the measured execution wrote; what the warm-up execution wrote is
\* never read, also when the measured execution fails or writes no file.
C10_OnlyMeasuredOutput ==
    /\ parsed_from \in {"none", "measured"}
    /\ (parsed_from = "measured") => (measured_rc = 0 /\ measured_out # None)
    /\ rpc = "returned" =>
         /\ \A i \in 1..Len(t_latencies[1]) :
              \E j \in MeasuredRecords : MeasuredLines[j].lat = t_latencies[1][i]
         /\ Len(t_latencies[1]) = Cardinality(MeasuredRecords)
         /\ (t_avg = None) <=> (MeasuredRecords = {})

\* the warm-up wrote records, the measured execution exited with 0 and wrote
\* no file: nothing is recorded
C10_Witness ==
    /\ rpc = "returned"
    /\ warmup_records > 0
    /\ measured_rc = 0 /\ measured_out = None
    /\ t_avg = None /\ t_latencies = Some(<<>>)

\* C17: the resource sampler of a profiling run is started before the
\* profiling child process launches and is stopped after that process exits on
\* every exit path of the profiling step (zero exit, non-zero exit, or launch
\* error); after run_perf_tuning returns or raises, no sampler is still
\* running.
C17_SamplerNeverOutlives ==
    /\ rpc \in {"profile", "stop"} => monitor = "running"
    /\ rpc \in {"returned", "raised"} => monitor # "running"

\* what the call was given to launch first and second
Twice == IF percentiles THEN <<"percentiles", "percentiles">> ELSE <<"plain", "plain">>

\* the measured execution exited with 0 and left its output file
MeasuredSucceeded == measured_rc = 0 /\ measured_out # None

VarNames == <<"OMP_WAIT_POLICY", "KMP_AFFINITY", "KMP_BLOCKTIME", "OMP_NESTED">>

\* candidate values; "" stands for leaving the variable unset
OptValues == {"", "ACTIVE"}

\* line 299: list(itertools.combinations(options, 1))
Singletons(options) == [j \in 1..Len(options) |-> <<options[j]>>]

\* lines 301-311: itertools.product(all_combos, options), each pair flattened
ProductFlat(all, options) ==
    [k \in 1..(Len(all) * Len(options)) |->
        Append(all[((k - 1) \div Len(options)) + 1],
               options[((k - 1) % Len(options)) + 1])]

\* line 298: the accumulated list is empty, taken as "this is the first variable"
IsFirst(all, i) == Len(all) = 0

\* lines 297-311: the loop over the candidate lists
CombosLoop(lists) ==
    LET acc[i \in 0..Len(lists)] ==
          IF i = 0 THEN <<>>
          ELSE IF IsFirst(acc[i - 1], i) THEN Singletons(lists[i])
          ELSE ProductFlat(acc[i - 1], lists[i])
    IN  acc[Len(lists)]

\* lines 291-312
get_env_var_combos(ev) == IF ev = None THEN << <<"">> >> ELSE CombosLoop(ev[1])

\* line 473: the keys of env_vars
KeysOf(ev) == IF ev = None THEN <<>> ELSE SubSeq(VarNames, 1, Len(ev[1]))

\* line 320-321: env_option[i] raises IndexError when the combination is shorter
DictRaises(names, option) ==
    Len(names) # 0 /\ Len(option) # 0 /\ Len(option) < Len(names)

\* lines 316-323: the non-empty values, keyed by name
gen_env_var_dict(names, option) ==
    IF Len(names) = 0 \/ Len(option) = 0 THEN <<>>
    ELSE LET keep == {i \in 1..Len(names) : option[i] # ""} IN
         [n \in {names[i] : i \in keep} |->
             option[CHOOSE i \in keep : names[i] = n]]

\* lines 471-473
GetCombos ==
    /\ cpc = "call"
    /\ env_var_combos' = get_env_var_combos(env_vars)
    /\ env_names' = KeysOf(env_vars)
    /\ combo_idx' = 1
    /\ cpc' = "sweep"
    /\ UNCHANGED <<env_vars, envs>>
    /\ UNCHANGED <<tvars, rvars, mvars, xvars>>

\* lines 475-477: the next combination and its dictionary of overrides
SweepCombo ==
    /\ cpc = "sweep"
    /\ combo_idx <= Len(env_var_combos)
    /\ IF DictRaises(env_names, env_var_combos[combo_idx])
         THEN /\ cpc' = "raised"
              /\ UNCHANGED <<envs, combo_idx>>
         ELSE /\ envs' = Append(envs, gen_env_var_dict(env_names,
                                                      env_var_combos[combo_idx]))
              /\ combo_idx' = combo_idx + 1
              /\ UNCHANGED cpc
    /\ UNCHANGED <<env_vars, env_var_combos, env_names>>
    /\ UNCHANGED <<tvars, rvars, mvars, xvars>>

\* line 475: no combination is left
SweepDone ==
    /\ cpc = "sweep"
    /\ combo_idx > Len(env_var_combos)
    /\ cpc' = "done"
    /\ UNCHANGED <<env_vars, env_var_combos, env_names, combo_idx, envs>>
    /\ UNCHANGED <<tvars, rvars, mvars, xvars>>

NextSweep == GetCombos \/ SweepCombo \/ SweepDone

\* the mappings a provider can have: none, or up to MaxVars candidate lists
EnvVarMaps ==
    {None} \cup {Some(m) : m \in SeqsUpTo(SeqsUpTo(OptValues, MaxOpts), MaxVars)}

InitSweep ==
    /\ cpc = "call"
    /\ env_vars \in EnvVarMaps
    /\ env_var_combos = <<>>
    /\ env_names = <<>>
    /\ combo_idx = 0
    /\ envs = <<>>
    /\ TunerIdle
    /\ RunnerIdle
    /\ MainIdle
    /\ EnvIdle
    /\ RecordIdle

SpecSweep == InitSweep /\ [][NextSweep]_vars

(***************************************************************************)
(* Claims about the environment combinations                               *)
(***************************************************************************)

\* c1 * c2 * ... * cN, the cardinalities of the candidate lists
CardProduct(lists) ==
    LET acc[i \in 0..Len(lists)] ==
          IF i = 0 THEN 1 ELSE acc[i - 1] * Len(lists[i])
    IN  acc[Len(lists)]

\* C7: for every mapping of N >= 1 variables to candidate lists of
\* cardinalities c1..cN (zero included), get_env_var_combos returns exactly
\* c1*...*cN combinations, each holding one value per variable in declaration
\* order, and a second call returns the same list.
C7_CartesianProduct ==
    (cpc # "call" /\ env_vars # None /\ Len(env_vars[1]) >= 1) =>
        /\ Len(env_var_combos) = CardProduct(env_vars[1])
        /\ \A k \in 1..Len(env_var_combos) :
             /\ Len(env_var_combos[k]) = Len(env_vars[1])
             /\ \A i \in 1..Len(env_vars[1]) :
                  \E j \in 1..Len(env_vars[1][i]) :
                      env_var_combos[k][i] = env_vars[1][i][j]
        /\ get_env_var_combos(env_vars) = env_var_combos

\* C8: when the mapping is absent (None) or present but empty, the generator
\* yields exactly one combination, and it maps to the empty dictionary of
\* overrides, so the provider still gets its defaults-only candidate.
C8_NoVariablesOneCombination ==
    (cpc # "call" /\ (env_vars = None \/ env_vars = Some(<<>>))) =>
        /\ Len(env_var_combos) = 1
        /\ cpc = "done" => envs = << <<>> >>

(***************************************************************************)
(* __main__, lines 436-592: the loop over the providers, the candidates of *)
(* each, the selection of the best, the profiling pass and the report.     *)
(*                                                                         *)
(* The two searches of a provider are the actions of                       *)
(* run_perf_tuning_binary above; `failed` and `successful` of __main__ are *)
(* the lists failed_tests and successful_tests that the searches append    *)
(* to.  A probe in these lists is Param(threads, avg); a candidate is a    *)
(* record with the fields cand, avg and runs.  A call of run_perf_tuning   *)
(* is one step here: it leaves an average or None in the trial, or raises. *)
(***************************************************************************)

\* line 415
allProviders ==
    {"cpu_openmp", "mklml", "dnnl", "cpu", "tensorrt", "ngraph", "cuda", "nuphar"}

\* line 418
parallel_eps == {"cpu_openmp", "mklml", "dnnl", "cpu", "ngraph"}

\* line 419
omp_eps == {"cpu_openmp", "mklml", "dnnl", "ngraph", "nuphar"}

\* the provider names of the requests that are modelled; "bogus" is no provider
RequestedNames == {"cpu", "nuphar", "cuda", "bogus"}

\* line 440: "mklml" in build_name or "nuphar" in build_name
UsesMklmlBuild(ep) == ep \in {"mklml", "nuphar"}

\* lines 440-447: the name passes the test of the loop body
Recognized(ep) == UsesMklmlBuild(ep) \/ ep \in allProviders

\* line 546: "cuda" in x.name or "tensorrt" in x.name; the name of a trial
\* begins with the name of its provider
NamesGpu(ep) == ep \in {"cuda", "tensorrt"}

\* the requests that are modelled: one provider, or two different ones
ProviderLists ==
    {q \in SeqsUpTo(RequestedNames, 2) :
        Len(q) >= 1 /\ \A i, j \in 1..Len(q) : i # j => q[i] # q[j]}

\* the thread ceilings a run is given (both default to the same number, lines
\* 363 and 375-380): the window of a search is empty, holds one or two thread
\* counts, or is wide enough for the search to start over
ThreadCeilings == {1, 3, 5}

\* what ep_envvar_map holds for a provider: no mapping, an empty one, one
\* variable with two candidate values
MainEnvMaps == {None, Some(<<>>), Some(<< <<"", "ACTIVE">> >>)}

\* the runs that are modelled: a run of one provider has any map of
\* environment variables, a run of two has none; a parallel run of two is
\* that of cpu, then cuda; the widest window is searched by a sequential run
\* of one provider without environment variables
RunInputs ==
    {r \in [providers : ProviderLists, parallel : BOOLEAN,
            threads : ThreadCeilings, env_vars : MainEnvMaps] :
        /\ Len(r.providers) > 1 => r.env_vars = None
        /\ (Len(r.providers) > 1 /\ r.parallel) => r.providers = <<"cpu", "cuda">>
        /\ r.threads = 5 =>
             (Len(r.providers) = 1 /\ ~r.parallel /\ r.env_vars = None)}

\* lines 503-516 and 519-527: a candidate, not yet run; `kind` is "combined"
\* or "defaults"
Candidate(b, c, kind) == [cand |-> <<b, c, kind>>, avg |-> None, runs |-> 0]

IsCandidate(x) == "cand" \in DOMAIN x

\* sorted(q, key=lambda e: e.avg): stable, ascending
SortByAvgKeepsOrder(q) == q

SortByAvg(q) ==
    LET Insert(r, x) ==
          LET k == Cardinality({j \in 1..Len(r) : r[j].avg[1] <= x.avg[1]}) IN
          SubSeq(r, 1, k) \o <<x>> \o SubSeq(r, k + 1, Len(r))
        acc[i \in 0..Len(q)] == IF i = 0 THEN <<>> ELSE Insert(acc[i - 1], q[i])
    IN  acc[Len(q)]

\* [x for x in q if P(x)], for the two filters of lines 534 and 539
WithAvg(q) ==
    LET acc[i \in 0..Len(q)] ==
          IF i = 0 THEN <<>>
          ELSE IF Truthy(q[i].avg) THEN Append(acc[i - 1], q[i]) ELSE acc[i - 1]
    IN  acc[Len(q)]

WithoutAvgDropped(q) == <<>>

WithoutAvg(q) ==
    LET acc[i \in 0..Len(q)] ==
          IF i = 0 THEN <<>>
          ELSE IF ~Truthy(q[i].avg) THEN Append(acc[i - 1], q[i]) ELSE acc[i - 1]
    IN  acc[Len(q)]

\* q[:n]
FirstN(q, n) == SubSeq(q, 1, IF Len(q) < n THEN Len(q) ELSE n)

\* line 535
TopN(q, n) == FirstN(SortByAvg(q), n)

\* the provider in whose turn failed[i] was appended
FailedEp(i) ==
    providers[CHOOSE b \in 1..Len(marks) :
                 /\ marks[b] < i
                 /\ \A c \in 1..Len(marks) : marks[c] < i => c <= b]

\* lines 545-546: the failed trials that stay, each with its provider
FailedUnfiltered(gpus) ==
    [i \in 1..Len(failed_tests) |-> [ep |-> FailedEp(i), trial |-> failed_tests[i]]]

FailedKept(gpus) ==
    LET acc[i \in 0..Len(failed_tests)] ==
          IF i = 0 THEN <<>>
          ELSE IF gpus = 0 /\ NamesGpu(FailedEp(i)) THEN acc[i - 1]
          ELSE Append(acc[i - 1], [ep |-> FailedEp(i), trial |-> failed_tests[i]])
    IN  acc[Len(failed_tests)]

\* the trial queued for a provider: the first of its retained trials
Queued(ep) == successful_by_ep[ep][1]

\* line 549: sorted(profile_candidates, key=lambda e: e.avg) raises TypeError
\* when it compares None with a number
SortRaises ==
    /\ Len(profile_candidates) >= 2
    /\ \E i \in 1..Len(profile_candidates) : Queued(profile_candidates[i]).avg = None

\* line 549, when it does not raise
SortedCandidates ==
    LET Insert(r, e) ==
          LET k == Cardinality({j \in 1..Len(r) :
                                   Queued(r[j]).avg[1] <= Queued(e).avg[1]}) IN
          SubSeq(r, 1, k) \o <<e>> \o SubSeq(r, k + 1, Len(r))
        acc[i \in 0..Len(profile_candidates)] ==
          IF i = 0 THEN <<>> ELSE Insert(acc[i - 1], profile_candidates[i])
    IN  acc[Len(profile_candidates)]

\* lines 146 and 531: percentiles is False unless the caller passes it
PlainRunProfiled == TRUE

PlainRun == FALSE

\* what the probes of the search at hand add to the trace
ProbeEvents(stage) ==
    [i \in 1..Len(probes) |->
        [ep |-> providers[build_idx], stage |-> stage,
         id |-> <<combo_idx, probes[i].threads>>, avg |-> probes[i].avg,
         percentiles |-> PlainRun]]

\* the locals of run_perf_tuning_binary are gone after its return
TunerReturned ==
    /\ pc' = "idle"
    /\ num_cores' = 0
    /\ is_omp' = FALSE
    /\ lower' = 0 /\ upper' = 0 /\ mid' = 0
    /\ best_run' = 0 /\ best_latency' = 0
    /\ rerun' = FALSE
    /\ ret' = None
    /\ probes' = <<>>
    /\ reruns' = 0
    /\ failed_in' = <<>>
    /\ successful_in' = <<>>

\* a call of run_perf_tuning_binary(..., n, ..., failed, successful, omp)
\* with the lists as they are at the call
TunerCalled(n, omp, failed, successful) ==
    /\ pc' = "call"
    /\ num_cores' = n
    /\ is_omp' = omp
    /\ ret' = None
    /\ probes' = <<>>
    /\ reruns' = 0
    /\ failed_in' = failed
    /\ successful_in' = successful
    /\ UNCHANGED <<lower, upper, mid, best_run, best_latency, rerun>>

\* lines 439-447: the name of the next provider is none the code knows
ProviderUnknown ==
    /\ mpc = "provider"
    /\ build_idx <= Len(providers)
    /\ ~Recognized(providers[build_idx])
    /\ mpc' = "aborted"
    /\ UNCHANGED <<providers, parallel, inter_op_num_threads, intra_op_num_threads,
                   top_n, ep_envvar_map, build_idx, best_inter_op_num_threads, tests, test_idx,
                   successful_by_ep, profile_candidates, prof_idx, out_json,
                   marks, trace>>
    /\ UNCHANGED <<tvars, rvars, cvars, xvars>>

\* lines 439-448: the build of the next provider is not on disk
ProviderSkipped ==
    /\ mpc = "provider"
    /\ build_idx <= Len(providers)
    /\ Recognized(providers[build_idx])
    /\ build_idx' = build_idx + 1
    /\ marks' = Append(marks, Len(failed_tests))
    /\ UNCHANGED <<mpc, providers, parallel, inter_op_num_threads,
                   intra_op_num_threads, top_n, ep_envvar_map,
                   best_inter_op_num_threads, tests,
                   test_idx, successful_by_ep, profile_candidates, prof_idx,
                   out_json, trace>>
    /\ UNCHANGED <<tvars, rvars, cvars, xvars>>

\* lines 439-469: the turn of the next provider begins; the inter-op search is
\* called when the run is parallel and the provider can run so
ProviderBegin ==
    /\ mpc = "provider"
    /\ build_idx <= Len(providers)
    /\ Recognized(providers[build_idx])
    /\ successful_tests' = <<>>
    /\ tests' = <<>>
    /\ best_inter_op_num_threads' = -1
    /\ marks' = Append(marks, Len(failed_tests))
    /\ IF parallel /\ providers[build_idx] \in parallel_eps
         THEN /\ TunerCalled(inter_op_num_threads, FALSE, failed_tests, <<>>)
              /\ mpc' = "inter"
         ELSE /\ mpc' = "env"
              /\ UNCHANGED <<pc, num_cores, is_omp, ret, probes, reruns, failed_in,
                             successful_in, lower, upper, mid, best_run,
                             best_latency, rerun>>
    /\ UNCHANGED <<failed_tests, mode, inj>>
    /\ UNCHANGED <<providers, parallel, inter_op_num_threads, intra_op_num_threads,
                   top_n, ep_envvar_map, build_idx, test_idx, successful_by_ep,
                   profile_candidates, prof_idx, out_json, trace>>
    /\ UNCHANGED <<rvars, cvars, xvars>>

\* lines 458-469: the inter-op search returns
InterReturn ==
    /\ mpc = "inter"
    /\ pc = "done"
    /\ best_inter_op_num_threads' = ret[1]
    /\ trace' = trace \o ProbeEvents("inter")
    /\ TunerReturned
    /\ mpc' = "env"
    /\ UNCHANGED <<failed_tests, successful_tests, mode, inj>>
    /\ UNCHANGED <<providers, parallel, inter_op_num_threads, intra_op_num_threads,
                   top_n, ep_envvar_map, build_idx, tests, test_idx, successful_by_ep,
                   profile_candidates, prof_idx, out_json, marks>>
    /\ UNCHANGED <<rvars, cvars, xvars>>

\* lines 471-473: the environment combinations of the provider
MainGetCombos ==
    /\ mpc = "env"
    /\ LET ev == ep_envvar_map[providers[build_idx]] IN
         /\ env_vars' = ev
         /\ env_var_combos' = get_env_var_combos(ev)
         /\ env_names' = KeysOf(ev)
    /\ combo_idx' = 1
    /\ envs' = <<>>
    /\ mpc' = "combo"
    /\ UNCHANGED cpc
    /\ UNCHANGED <<providers, parallel, inter_op_num_threads, intra_op_num_threads,
                   top_n, ep_envvar_map, build_idx, best_inter_op_num_threads, tests, test_idx,
                   successful_by_ep, profile_candidates, prof_idx, out_json,
                   marks, trace>>
    /\ UNCHANGED <<tvars, rvars, xvars>>

\* lines 475-497: the next combination; the search of the thread pool size (or
\* of OMP_NUM_THREADS) is called
ComboBegin ==
    /\ mpc = "combo"
    /\ combo_idx <= Len(env_var_combos)
    /\ IF DictRaises(env_names, env_var_combos[combo_idx])
         THEN /\ mpc' = "crashed"
              /\ UNCHANGED <<envs, tvars>>
         ELSE /\ envs' = Append(envs, gen_env_var_dict(env_names,
                                                      env_var_combos[combo_idx]))
              /\ TunerCalled(intra_op_num_threads,
                             providers[build_idx] \in omp_eps,
                             failed_tests, successful_tests)
              /\ mpc' = "intra"
              /\ UNCHANGED <<failed_tests, successful_tests, mode, inj>>
    /\ UNCHANGED <<cpc, env_vars, env_var_combos, env_names, combo_idx>>
    /\ UNCHANGED <<providers, parallel, inter_op_num_threads, intra_op_num_threads,
                   top_n, ep_envvar_map, build_idx, best_inter_op_num_threads, tests, test_idx,
                   successful_by_ep, profile_candidates, prof_idx, out_json,
                   marks, trace>>
    /\ UNCHANGED <<rvars, xvars>>

\* lines 498 and 502: both searches found a thread count
EitherFound(inter, pool) == inter > 1 \/ pool > 1

BothFound(inter, pool) == inter > 1 /\ pool > 1

\* lines 488-527: the search returns; the combined candidate is appended when
\* both searches found a thread count, the defaults candidate always
ComboCandidates ==
    /\ mpc = "intra"
    /\ pc = "done"
    /\ LET best_thread_pool_size == ret[1]
           combined == IF BothFound(best_inter_op_num_threads, best_thread_pool_size)
                         THEN <<Candidate(build_idx, combo_idx, "combined")>>
                         ELSE <<>>
       IN  tests' = tests \o combined
                      \o <<Candidate(build_idx, combo_idx, "defaults")>>
    /\ trace' = trace \o ProbeEvents("sweep")
    /\ TunerReturned
    /\ combo_idx' = combo_idx + 1
    /\ mpc' = "combo"
    /\ UNCHANGED <<failed_tests, successful_tests, mode, inj>>
    /\ UNCHANGED <<cpc, env_vars, env_var_combos, env_names, envs>>
    /\ UNCHANGED <<providers, parallel, inter_op_num_threads, intra_op_num_threads,
                   top_n, ep_envvar_map, build_idx, best_inter_op_num_threads, test_idx,
                   successful_by_ep, profile_candidates, prof_idx, out_json,
                   marks>>
    /\ UNCHANGED <<rvars, xvars>>

\* line 475: no combination is left
ComboDone ==
    /\ mpc = "combo"
    /\ combo_idx > Len(env_var_combos)
    /\ test_idx' = 1
    /\ mpc' = "exec"
    /\ UNCHANGED <<providers, parallel, inter_op_num_threads, intra_op_num_threads,
                   top_n, ep_envvar_map, build_idx, best_inter_op_num_threads, tests,
                   successful_by_ep, profile_candidates, prof_idx, out_json,
                   marks, trace>>
    /\ UNCHANGED <<tvars, rvars, cvars, xvars>>

\* lines 530-531: run_perf_tuning(test) on the next candidate
ExecCandidate ==
    /\ mpc = "exec"
    /\ test_idx <= Len(tests)
    /\ \E a \in MainOutcomes :
         /\ tests' = [tests EXCEPT ![test_idx].avg = a,
                                   ![test_idx].runs = tests[test_idx].runs + 1]
         /\ trace' = Append(trace, [ep |-> providers[build_idx], stage |-> "cand",
                                    id |-> tests[test_idx].cand, avg |-> a,
                                    percentiles |-> PlainRun])
    /\ test_idx' = test_idx + 1
    /\ UNCHANGED <<mpc, providers, parallel, inter_op_num_threads,
                   intra_op_num_threads, top_n, ep_envvar_map, build_idx,
                   best_inter_op_num_threads, successful_by_ep,
                   profile_candidates, prof_idx, out_json, marks>>
    /\ UNCHANGED <<tvars, rvars, cvars, xvars>>

\* line 530: the loop over the candidates has run them all
AllExecutedOrNot(i, n) == TRUE

AllExecuted(i, n) == i > n

\* lines 534-539: the best top_n trials of the provider are kept, the first of
\* them is queued for profiling, the candidates without average are failed
Select ==
    /\ mpc = "exec"
    /\ AllExecuted(test_idx, Len(tests))
    /\ LET kept == TopN(successful_tests \o WithAvg(tests), top_n)
           ep   == providers[build_idx]
       IN  /\ successful_tests' = kept
           /\ IF Len(kept) > 0
                THEN /\ successful_by_ep' =
                          [e \in DOMAIN successful_by_ep \cup {ep} |->
                              IF e = ep THEN kept ELSE successful_by_ep[e]]
                     /\ profile_candidates' = Append(profile_candidates, ep)
                ELSE UNCHANGED <<successful_by_ep, profile_candidates>>
           /\ trace' = Append(trace, [ep |-> ep, stage |-> "select",
                                      id |-> <<Len(tests)>>, avg |-> None,
                                      percentiles |-> FALSE])
    /\ failed_tests' = failed_tests \o WithoutAvg(tests)
    /\ build_idx' = build_idx + 1
    /\ mpc' = "provider"
    /\ UNCHANGED <<pc, num_cores, is_omp, lower, upper, mid, best_run,
                   best_latency, rerun, ret, mode, inj, probes, reruns, failed_in,
                   successful_in>>
    /\ UNCHANGED <<providers, parallel, inter_op_num_threads, intra_op_num_threads,
                   top_n, ep_envvar_map, best_inter_op_num_threads, tests, test_idx,
                   prof_idx,
                   out_json, marks>>
    /\ UNCHANGED <<rvars, cvars, xvars>>

\* line 439: no provider is left; the loop of line 542 begins
ProvidersDone ==
    /\ mpc = "provider"
    /\ build_idx > Len(providers)
    /\ prof_idx' = 1
    /\ mpc' = "profile"
    /\ UNCHANGED <<providers, parallel, inter_op_num_threads, intra_op_num_threads,
                   top_n, ep_envvar_map, build_idx, best_inter_op_num_threads, tests, test_idx,
                   successful_by_ep, profile_candidates, out_json, marks, trace>>
    /\ UNCHANGED <<tvars, rvars, cvars, xvars>>

\* lines 542-543: run_perf_tuning(test, percentiles=True) on the next queued
\* trial, which is the first retained trial of its provider
ProfileCandidate ==
    /\ mpc = "profile"
    /\ prof_idx <= Len(profile_candidates)
    /\ LET ep == profile_candidates[prof_idx] IN
       \E a \in MainOutcomes :
         /\ successful_by_ep' = [successful_by_ep EXCEPT ![ep][1].avg = a]
         /\ trace' = Append(trace, [ep |-> ep, stage |-> "profile",
                                    id |-> Queued(ep).avg, avg |-> a,
                                    percentiles |-> TRUE])
    /\ prof_idx' = prof_idx + 1
    /\ UNCHANGED <<mpc, providers, parallel, inter_op_num_threads,
                   intra_op_num_threads, top_n, ep_envvar_map, build_idx,
                   best_inter_op_num_threads, tests, test_idx,
                   profile_candidates, out_json, marks>>
    /\ UNCHANGED <<tvars, rvars, cvars, xvars>>

\* lines 545-592: the GPU filter of the failed list, the sort of the queued
\* trials and the report
WriteReport ==
    /\ mpc = "profile"
    /\ prof_idx > Len(profile_candidates)
    /\ \E gpus \in {0, 1} :
         IF SortRaises
           THEN /\ mpc' = "crashed"
                /\ UNCHANGED out_json
           ELSE /\ mpc' = "done"
                /\ out_json' = Some([order |-> SortedCandidates,
                                     successes |-> successful_by_ep,
                                     failed |-> FailedKept(gpus),
                                     gpus |-> gpus])
    /\ UNCHANGED <<providers, parallel, inter_op_num_threads, intra_op_num_threads,
                   top_n, ep_envvar_map, build_idx, best_inter_op_num_threads, tests, test_idx,
                   successful_by_ep, profile_candidates, prof_idx, marks, trace>>
    /\ UNCHANGED <<tvars, rvars, cvars, xvars>>

\* a trial is about to run
TrialPending ==
    \/ mpc \in {"inter", "intra"} /\ pc = "baseline"
    \/ mpc \in {"inter", "intra"} /\ pc = "loop" /\ lower <= upper
         /\ Midpoint(lower, upper) # 2
    \/ mpc = "exec" /\ test_idx <= Len(tests)
    \/ mpc = "profile" /\ prof_idx <= Len(profile_candidates)

\* lines 169 and 174: run_perf_tuning raises, and nothing catches it
TrialRaises ==
    /\ TrialPending
    /\ mpc' = "crashed"
    /\ pc' = IF pc = "idle" THEN "idle" ELSE "raised"
    /\ UNCHANGED <<num_cores, is_omp, lower, upper, mid, best_run, best_latency,
                   rerun, failed_tests, successful_tests, ret, mode, inj, probes,
                   reruns, failed_in, successful_in>>
    /\ UNCHANGED <<providers, parallel, inter_op_num_threads, intra_op_num_threads,
                   top_n, ep_envvar_map, build_idx, best_inter_op_num_threads, tests, test_idx,
                   successful_by_ep, profile_candidates, prof_idx, out_json,
                   marks, trace>>
    /\ UNCHANGED <<rvars, cvars, xvars>>

NextMain ==
    \/ ProviderUnknown \/ ProviderSkipped \/ ProviderBegin \/ InterReturn
    \/ MainGetCombos \/ ComboBegin \/ ComboCandidates \/ ComboDone
    \/ ExecCandidate \/ Select \/ ProvidersDone \/ ProfileCandidate
    \/ WriteReport \/ TrialRaises
    \/ Begin \/ Baseline \/ LoopExit \/ Break \/ Probe

\* the state after line 438
InitMain ==
    /\ mpc = "provider"
    /\ \E r \in RunInputs :
         /\ providers = r.providers
         /\ parallel = r.parallel
         /\ inter_op_num_threads = r.threads
         /\ intra_op_num_threads = r.threads
         /\ ep_envvar_map = [e \in {r.providers[i] : i \in 1..Len(r.providers)}
                                |-> r.env_vars]
    /\ top_n \in 1..MaxTopN
    /\ build_idx = 1
    /\ best_inter_op_num_threads = 0
    /\ tests = <<>>
    /\ test_idx = 0
    /\ successful_by_ep = <<>>
    /\ profile_candidates = <<>>
    /\ prof_idx = 0
    /\ out_json = None
    /\ marks = <<>>
    /\ trace = <<>>
    /\ pc = "idle"
    /\ num_cores = 0
    /\ is_omp = FALSE
    /\ lower = 0 /\ upper = 0 /\ mid = 0
    /\ best_run = 0 /\ best_latency = 0
    /\ rerun = FALSE
    /\ failed_tests = <<>>
    /\ successful_tests = <<>>
    /\ ret = None
    /\ mode = "main"
    /\ inj = <<>>
    /\ probes = <<>>
    /\ reruns = 0
    /\ failed_in = <<>>
    /\ successful_in = <<>>
    /\ RunnerIdle
    /\ SweepIdle
    /\ EnvIdle
    /\ RecordIdle

SpecMain == InitMain /\ [][NextMain]_vars

(***************************************************************************)
(* Claims about __main__                                                   *)
(***************************************************************************)

\* the trials run and the selections made so far, those of the search at hand
\* included
History ==
    trace \o (IF mpc = "inter" THEN ProbeEvents("inter")
              ELSE IF mpc = "intra" THEN ProbeEvents("sweep")
              ELSE <<>>)

IsTrial(e) == e.stage \in {"inter", "sweep", "cand", "profile"}

\* the report lists the candidate of event e among the successes of its provider
InSuccesses(e) ==
    /\ e.ep \in DOMAIN out_json[1].successes
    /\ \E j \in 1..Len(out_json[1].successes[e.ep]) :
         /\ IsCandidate(out_json[1].successes[e.ep][j])
         /\ out_json[1].successes[e.ep][j].cand = e.id

\* the report lists the candidate of event e in the failed list
InFailed(e) ==
    \E j \in 1..Len(out_json[1].failed) :
        /\ out_json[1].failed[j].ep = e.ep
        /\ IsCandidate(out_json[1].failed[j].trial)
        /\ out_json[1].failed[j].trial.cand = e.id

\* the executions of candidates
CandidateRuns == {i \in 1..Len(trace) : trace[i].stage = "cand"}

\* C11: every candidate trial that was executed during a run appears in the
\* final report, either among the successes of its provider or in the failed
\* list; no executed candidate is in neither.
C11_EveryCandidateReported ==
    mpc = "done" =>
        \A i \in CandidateRuns : InSuccesses(trace[i]) \/ InFailed(trace[i])

\* the provider of event e has top_n retained trials, and those after the first
\* (whose average the profiling run has replaced) are no slower than e
Outranked(e) ==
    /\ e.ep \in DOMAIN out_json[1].successes
    /\ Len(out_json[1].successes[e.ep]) = top_n
    /\ \A j \in 2..top_n : out_json[1].successes[e.ep][j].avg[1] <= e.avg[1]

\* C11, amended: in the final report every executed candidate without an
\* average is in the failed list, unless no GPU is found and the name of its
\* provider holds cuda or tensorrt; every executed candidate with an average is
\* among the successes of its provider, unless top_n trials of that provider
\* that are no slower are retained.
C11_CandidateReportedOrOutranked ==
    mpc = "done" =>
        \A i \in CandidateRuns :
            IF trace[i].avg = None
              THEN InFailed(trace[i])
                     \/ (out_json[1].gpus = 0 /\ NamesGpu(trace[i].ep))
              ELSE InSuccesses(trace[i]) \/ Outranked(trace[i])

\* a candidate with an average is left out of the report, another is reported
\* as a success and a third as failed
C11_Witness ==
    /\ mpc = "done"
    /\ \E i \in CandidateRuns :
         trace[i].avg # None /\ ~InSuccesses(trace[i]) /\ ~InFailed(trace[i])
    /\ \E i \in CandidateRuns : trace[i].avg # None /\ InSuccesses(trace[i])
    /\ \E i \in CandidateRuns : trace[i].avg = None /\ InFailed(trace[i])

\* C12: for every list of requested providers that contains an unrecognized
\* name at any position, the run aborts with a configuration error before any
\* trial (probe or candidate) of any provider has been executed.
C12_UnknownProviderNoTrial ==
    (\E b \in 1..Len(providers) : ~Recognized(providers[b])) =>
        /\ \A i \in 1..Len(History) : ~IsTrial(History[i])
        /\ mpc # "done"

\* the failed percentile runs of the trials that were queued
FailedProfiles ==
    {i \in 1..Len(trace) : trace[i].stage = "profile" /\ trace[i].avg = None}

\* line 549 raised
SortRaised ==
    mpc = "crashed" /\ prof_idx >= 1 /\ prof_idx > Len(profile_candidates)

\* C13: if the percentile re-run of a provider's best candidate fails after its
\* ranking run succeeded, the run still completes and that candidate is still
\* reported among the successes of the provider with the average of its
\* ranking run.
C13_FailedProfileKeepsRanking ==
    /\ ~SortRaised
    /\ mpc = "done" =>
         \A i \in FailedProfiles :
             out_json[1].successes[trace[i].ep][1].avg = trace[i].id

\* the selection of line 535 has just been made: tests and successful are
\* those of the provider whose turn ended
JustSelected ==
    mpc = "provider" /\ Len(trace) > 0 /\ trace[Len(trace)].stage = "select"

SelectedEp == trace[Len(trace)].ep

\* q is ascending by average
Ascending(q) == \A i, j \in 1..Len(q) : i < j => q[i].avg[1] <= q[j].avg[1]

Min(a, b) == IF a < b THEN a ELSE b

\* the candidates of the provider that have an average
CandidatesWithAvg == {i \in 1..Len(tests) : tests[i].avg # None}

\* the first retained trial is queued for profiling
BestQueued ==
    Len(successful_tests) > 0 =>
        /\ Len(profile_candidates) > 0
        /\ profile_candidates[Len(profile_candidates)] = SelectedEp
        /\ successful_by_ep[SelectedEp] = successful_tests

\* every candidate without an average is in the failed list
FailedRecorded ==
    \A i \in 1..Len(tests) :
        tests[i].avg = None =>
            \E j \in 1..Len(failed_tests) : failed_tests[j] = tests[i]

Pool ==
    {i \in 1..Len(trace) :
        /\ trace[i].ep = SelectedEp
        /\ trace[i].stage \in {"inter", "sweep", "cand"}
        /\ trace[i].avg # None}

\* the retained trial x is the trial of event e
SameTrial(x, e) ==
    /\ x.avg = e.avg
    /\ IF IsCandidate(x) THEN e.stage = "cand" /\ x.cand = e.id
       ELSE e.stage \in {"inter", "sweep"} /\ x.threads = e.id[2]

CandidatesExecuted == mpc = "exec" /\ test_idx > Len(tests)

\* C15: in the candidate-execution stage of a provider, every candidate
\* accumulated over all environment combinations is run through the trial
\* runner exactly once, and never with percentile profiling enabled.
C15_CandidatesRunOncePlain ==
    /\ \A i \in 1..Len(tests) : tests[i].runs <= 1
    /\ \A i \in CandidateRuns : ~trace[i].percentiles
    /\ CandidatesExecuted =>
         /\ \A c \in 1..Len(env_var_combos) :
              \E i \in 1..Len(tests) :
                  tests[i].cand = <<build_idx, c, "defaults">>
         /\ \A i \in 1..Len(tests) :
              /\ tests[i].runs = 1
              /\ Cardinality({j \in CandidateRuns :
                     trace[j].id = tests[i].cand}) = 1

\* the candidates of two combinations, the combined one among them, have run
C15_Witness ==
    /\ CandidatesExecuted
    /\ Len(env_var_combos) = 2
    /\ Len(tests) >= 3

\* the place of a stage in the turn of a provider
Rank(stage) ==
    CASE stage = "inter" -> 1
      [] stage = "sweep" -> 2
      [] stage = "cand" -> 3
      [] stage = "select" -> 4
      [] stage = "profile" -> 5

\* C16: within one provider, every inter-op tuning probe finishes before the
\* first environment-sweep probe starts, every environment-sweep probe before
\* the first candidate is executed, and every candidate has been executed
\* before top-N selection; percentile re-profiling of any provider starts only
\* after selection.
C16_StagesInOrder ==
    /\ \A i, j \in 1..Len(History) :
         (i < j /\ History[i].ep = History[j].ep) =>
             Rank(History[i].stage) <= Rank(History[j].stage)
    /\ \A j \in 1..Len(History) :
         History[j].stage = "select" =>
             History[j].id[1] =
                 Cardinality({i \in 1..(j - 1) :
                     History[i].ep = History[j].ep /\ History[i].stage = "cand"})
    /\ \A j \in 1..Len(History) :
         History[j].stage = "profile" =>
             \A i \in 1..Len(History) : History[i].stage = "select" => i < j

\* a provider went through all its stages, and two were selected before the
\* first was profiled
C16_Witness ==
    /\ mpc = "done"
    /\ \E e \in {trace[i].ep : i \in 1..Len(trace)} :
         \A st \in {"inter", "sweep", "cand", "select", "profile"} :
             \E i \in 1..Len(trace) : trace[i].ep = e /\ trace[i].stage = st
    /\ Cardinality({i \in 1..Len(trace) : trace[i].stage = "profile"}) = 2

\* the candidates of combination c of the provider at hand, of one kind
CandidatesOf(c, kind) ==
    {i \in 1..Len(tests) : tests[i].cand = <<build_idx, c, kind>>}

\* the sweep of the provider at hand is under way
Sweeping == mpc \in {"combo", "intra"}

\* C25: for every environment combination of a provider the candidate list
\* gains exactly one defaults candidate (the combination alone, no thread
\* flags), and gains one combined candidate (parallel mode, best inter-op
\* value, best intra-op or native value) exactly when both
\* best_inter_op_num_threads > 1 and best_thread_pool_size > 1; no candidate is
\* executed during the sweep.
C25_CandidatesOfCombination ==
    /\ [](Sweeping =>
            /\ \A c \in 1..(combo_idx - 1) :
                 /\ Cardinality(CandidatesOf(c, "defaults")) = 1
                 /\ Cardinality(CandidatesOf(c, "combined")) <= 1
            /\ \A i \in 1..Len(tests) :
                 /\ tests[i].cand[1] = build_idx
                 /\ tests[i].cand[2] < combo_idx
                 /\ tests[i].runs = 0
                 /\ tests[i].avg = None
            /\ \A i \in 1..Len(trace) :
                 (trace[i].ep = providers[build_idx]) => trace[i].stage # "cand")
    /\ [][(mpc = "intra" /\ mpc' = "combo") =>
            /\ Len(tests') = Len(tests)
                   + (IF best_inter_op_num_threads > 1 /\ ret[1] > 1 THEN 2 ELSE 1)
            /\ tests'[Len(tests')].cand = <<build_idx, combo_idx, "defaults">>
            /\ (best_inter_op_num_threads > 1 /\ ret[1] > 1) =>
                  tests'[Len(tests') - 1].cand = <<build_idx, combo_idx, "combined">>
            /\ \A i \in 1..Len(tests) : tests'[i] = tests[i]]_vars

\* two combinations were swept: the first gave both candidates, the second,
\* whose search found no thread count, only the defaults candidate
C25_Witness ==
    /\ mpc = "combo"
    /\ combo_idx = 3
    /\ best_inter_op_num_threads > 1
    /\ Cardinality(CandidatesOf(1, "combined")) = 1
    /\ Cardinality(CandidatesOf(2, "combined")) = 0
    /\ Len(tests) = 3

\* the averages the report shows for a provider are ascending (a record
\* without average is left aside)
RecordsAscending(ep) ==
    LET q == out_json[1].successes[ep] IN
    \A i, j \in 1..Len(q) :
        (i < j /\ q[i].avg # None /\ q[j].avg # None) => q[i].avg[1] <= q[j].avg[1]

\* C27: after the percentile re-profiling pass, the trial records written into
\* the report are in ascending order of their re-profiled average latency:
\* providers are ordered by their best candidate's new average, and within each
\* provider the records are ascending by the averages that the report shows.
C27_ReportAscending ==
    mpc = "done" =>
        LET order == out_json[1].order IN
        /\ \A i, j \in 1..Len(order) :
              LET a == out_json[1].successes[order[i]][1].avg
                  b == out_json[1].successes[order[j]][1].avg
              IN  (i < j /\ a # None /\ b # None) => a[1] <= b[1]
        /\ \A i \in 1..Len(order) : RecordsAscending(order[i])

\* the failed trials whose name holds neither cuda nor tensorrt
OtherFailed == {i \in 1..Len(failed_tests) : FailedEp(i) \notin {"cuda", "tensorrt"}}

\* C21: on a host with zero detected GPUs, the final failed list holds no trial
\* whose name references cuda or tensorrt, and every other failed trial is
\* kept; on a host with at least one GPU no failed trial is removed.
C21_GpuTrialsFiltered ==
    mpc = "done" =>
        LET reported == out_json[1].failed IN
        IF out_json[1].gpus = 0
          THEN /\ \A k \in 1..Len(reported) :
                    reported[k].ep \notin {"cuda", "tensorrt"}
               /\ Len(reported) = Cardinality(OtherFailed)
               /\ \A i \in OtherFailed :
                    LET k == Cardinality({j \in OtherFailed : j <= i}) IN
                    /\ reported[k].ep = FailedEp(i)
                    /\ reported[k].trial = failed_tests[i]
          ELSE /\ Len(reported) = Len(failed_tests)
               /\ \A i \in 1..Len(failed_tests) :
                    /\ reported[i].ep = FailedEp(i)
                    /\ reported[i].trial = failed_tests[i]

\* no GPU is found, a trial of cuda and a trial of another provider have
\* failed, and the report lists the second and not the first
C21_Witness ==
    /\ mpc = "done"
    /\ out_json[1].gpus = 0
    /\ \E i \in 1..Len(failed_tests) : FailedEp(i) = "cuda"
    /\ OtherFailed # {}
    /\ Len(out_json[1].failed) = Cardinality(OtherFailed)

(***************************************************************************)
(* Claims about the names of the probes of one search                      *)
(***************************************************************************)

\* lines 219 and 255: the name of the probe at t threads is
\* test_params.name + str(t) + name_suffix, so two probes of one search have
\* the same name exactly when they have the same thread count
SameName(x, y) == x.threads = y.threads

\* C19: trial names are unique: within one run no two executed trials (tuner
\* probes of one search, re-run probes included, and candidates) have the same
\* name; equivalently no thread count is probed twice inside a single search.
C19_ProbeNamesUnique ==
    \A i, j \in 1..Len(probes) : SameName(probes[i], probes[j]) => i = j

(***************************************************************************)
(* Claims about the re-run of the search                                   *)
(***************************************************************************)

\* a step of the loop whose probe succeeded
ProbeSucceeded ==
    /\ pc = "loop"
    /\ Len(probes') = Len(probes) + 1
    /\ Truthy(probes'[Len(probes')].avg)

\* the floor-midpoint of the window [2, upper] the search was given
OriginalMid == Midpoint(2, InitialUpper(num_cores, is_omp))

\* C22: in every search, the re-run is triggered exactly when the window has
\* converged and the best thread count equals the floor-midpoint of the
\* original full window [2, upper], in native-threading mode (upper =
\* num_cores) as well as in the other modes (upper = num_cores - 1); the re-run
\* then restricts the window to the lower half of that original window.  (A
\* search that has re-run once is left aside: it does not re-run again.)
C22_RerunAtOriginalMidpoint ==
    [][ProbeSucceeded =>
         /\ reruns' = reruns + 1 =>
              /\ upper - lower <= 1
              /\ best_run' = OriginalMid
              /\ lower' = 2
              /\ upper' = OriginalMid - 1
         /\ (reruns' = reruns /\ ~rerun /\ lower' > upper') =>
              best_run' # OriginalMid]_vars

\* C23: in every execution of run_perf_tuning_binary the window is reset for a
\* re-run at most once, whatever the latencies and probe outcomes.
C23_AtMostOneRerun == reruns <= 1

\* a search that re-ran converged a second time, in the lower half, and ended
\* without a second re-run
C23_Witness ==
    /\ pc = "done"
    /\ reruns = 1
    /\ lower > upper
    /\ Cardinality({i \in 1..Len(probes) : probes[i].rerun}) >= 2

\* the failed probes of the loop so far
FailedLoopProbes == {i \in 2..Len(probes) : ~Truthy(probes[i].avg)}

\* a step of the loop whose probe failed
ProbeFailed ==
    /\ pc = "loop"
    /\ Len(probes') = Len(probes) + 1
    /\ ~Truthy(probes'[Len(probes')].avg)

\* C24: if a probe fails after the baseline succeeded, in the first pass or in
\* the re-run, the search stops at once: no later probe and no re-run happen,
\* the failed probe is recorded once in the failed list, and the returned value
\* is the best thread count held just before the failed probe.
C24_FailedProbeStops ==
    /\ [](\A i \in FailedLoopProbes :
            /\ i = Len(probes)
            /\ pc = "done"
            /\ failed_tests = Append(failed_in, Param(probes[i].threads, probes[i].avg)))
    /\ [][ProbeFailed =>
            /\ ret' = Some(best_run)
            /\ best_run' = best_run
            /\ reruns' = reruns
            /\ pc' = "done"]_vars

\* a probe of the re-run failed, after an earlier search of the provider had
\* left a failed trial in the list
C24_Witness ==
    /\ pc = "done"
    /\ Len(probes) \in FailedLoopProbes
    /\ probes[Len(probes)].rerun
    /\ failed_in # <<>>
    /\ ret = Some(RerunPivot(num_cores))

\* the latencies of the successful probes so far
SuccessfulLatencies == {probes[i].avg[1] : i \in {j \in 1..Len(probes) : Truthy(probes[j].avg)}}

\* C28: when run_perf_tuning_binary returns a thread count other than -1, the
\* latency measured at that thread count is less than or equal to the latency
\* of every successful probe made in the same search (first pass and re-run);
\* throughout the search best_latency equals the minimum latency over the
\* successful probes so far.
C28_BestIsMinimum ==
    /\ (pc \in {"loop", "done"} /\ SuccessfulLatencies # {}) =>
           /\ best_latency \in SuccessfulLatencies
           /\ \A v \in SuccessfulLatencies : best_latency <= v
    /\ (pc = "done" /\ ret # Some(-1)) =>
           \E i \in 1..Len(probes) :
               /\ probes[i].threads = ret[1]
               /\ Truthy(probes[i].avg)
               /\ \A v \in SuccessfulLatencies : probes[i].avg[1] <= v

\* a search with a re-run returned a thread count after a slower probe had
\* followed a faster one, in the first pass and in the re-run
C28_Witness ==
    /\ pc = "done"
    /\ ret # Some(-1)
    /\ reruns = 1
    /\ Cardinality(SuccessfulLatencies) >= 2
    /\ \E i \in 2..Len(probes) :
         /\ probes[i].rerun
         /\ Truthy(probes[i].avg) /\ Truthy(probes[i - 1].avg)
         /\ probes[i].avg[1] > probes[i - 1].avg[1]

\* a step of the loop after which the loop goes on
LoopGoesOn == pc = "loop" /\ pc' = "loop"

\* C29: for every thread ceiling and every pattern of probe latencies and
\* failures, run_perf_tuning_binary terminates provided each probe terminates:
\* every loop iteration either ends the search or strictly shrinks the window,
\* and the window is widened again at most once by the re-run.
C29_SearchTerminates ==
    /\ <>(pc = "done")
    /\ [][LoopGoesOn =>
            \/ upper' - lower' < upper - lower
            \/ reruns = 0 /\ reruns' = 1]_vars

\* a search over the widest window ended after a re-run
C29_Witness ==
    /\ pc = "done"
    /\ num_cores = MaxCores
    /\ reruns = 1
    /\ Len(probes) >= 6

(***************************************************************************)
(* PerfTestParams (lines 24-59) and the dictionaries of environment        *)
(* variables that __main__ and run_perf_tuning_binary pass to it.          *)
(*                                                                         *)
(* A dictionary is a function from names to values.  Python dictionaries   *)
(* are objects that several names can refer to, so the model keeps them in *)
(* dicts and refers to them by their place there; dicts[1] is os.environ.  *)
(* A trial is [env, env_to_set], the places of self.env and                *)
(* self.env_to_set, with its role and `own`, the overrides its maker meant *)
(* it to have.                                                             *)
(***************************************************************************)

\* the two variables of line 39 and 40
ThreadVars == {"OMP_NUM_THREADS", "OMP_WAIT_POLICY"}

\* os.environ when the run starts: each of the two variables is unset or holds
\* a value someone left there
Environs == {[n \in S |-> "stale"] : S \in SUBSET ThreadVars}

\* what gen_env_var_dict returns for a combination
Overrides == {[n \in S |-> "ACTIVE"] : S \in SUBSET {"OMP_WAIT_POLICY"}}

\* str(t) for a thread count
str(t) == <<"0", "1", "2", "3", "4", "5", "6", "7", "8", "9">>[t + 1]

\* d.update(u)
DictUpdate(d, u) ==
    [n \in DOMAIN d \cup DOMAIN u |-> IF n \in DOMAIN u THEN u[n] ELSE d[n]]

\* d.pop(n, None)
DictPop(d, n) == [k \in DOMAIN d \ {n} |-> d[k]]

\* x.copy() of lines 223, 259, 494, 508 and 524: a new dictionary with the
\* entries of the one at `at`
DictCopyAliased(h, at) == [heap |-> h, at |-> at]

DictCopy(h, at) == [heap |-> Append(h, h[at]), at |-> Len(h) + 1]

\* the literal {} of line 464
DictNew(h) == [heap |-> Append(h, <<>>), at |-> Len(h) + 1]

\* lines 31-41: self.env
ChildEnv(h, arg, win) ==
    LET copy    == h[1]
        withlib == IF win THEN copy
                   ELSE DictUpdate(copy, [n \in {"LD_LIBRARY_PATH"} |-> "build_path"])
        popped  == DictPop(DictPop(withlib, "OMP_WAIT_POLICY"), "OMP_NUM_THREADS")
    IN  DictUpdate(popped, h[arg])

\* lines 24-55: PerfTestParams(..., env, ...) with the dictionary at `arg`
Construct(h, arg, win, role, own) ==
    [heap  |-> Append(h, ChildEnv(h, arg, win)),
     trial |-> [env |-> Len(h) + 1, env_to_set |-> arg, role |-> role,
                own |-> own]]

\* lines 57-59: updateEnv
UpdateEnv(h, t, u) ==
    [i \in 1..Len(h) |->
        IF i = t.env \/ i = t.env_to_set THEN DictUpdate(h[i], u) ELSE h[i]]

\* lines 232-233, 269-270 and 511-512: the thread count goes to
\* OMP_NUM_THREADS when the provider has its own threading
ThreadOverride(how, t) ==
    IF how = "omp" THEN [n \in {"OMP_NUM_THREADS"} |-> str(t)] ELSE <<>>

\* a trial made from a copy of the dictionary at `from`, then updated
MakeTrial(from, role, own, how, t) ==
    LET cp == DictCopy(dicts, from)
        c  == Construct(cp.heap, cp.at, windows, role,
                        DictUpdate(own, ThreadOverride(how, t)))
    IN  /\ dicts' = IF how = "omp"
                      THEN UpdateEnv(c.heap, c.trial, ThreadOverride(how, t))
                      ELSE c.heap
        /\ trials' = Append(trials, c.trial)

\* line 477: env = gen_env_var_dict(env_names, combo)
MainEnv ==
    /\ Len(dicts) >= 1
    /\ IF env = None THEN TRUE ELSE env[1].at # Len(dicts)
    /\ Len(trials) < MaxTrials
    /\ \E o \in Overrides :
         /\ dicts' = Append(dicts, o)
         /\ env' = Some([at |-> Len(dicts) + 1, made |-> o])
    /\ template' = 0
    /\ threading' = "none"
    /\ UNCHANGED <<environ0, windows, trials>>
    /\ UNCHANGED <<tvars, rvars, cvars, mvars, qvars>>

\* lines 459-466: the template of the inter-op search, made with {}
InterTemplate ==
    /\ Len(dicts) >= 1
    /\ env = None
    /\ template = 0
    /\ Len(trials) < MaxTrials
    /\ LET nw == DictNew(dicts)
           c  == Construct(nw.heap, nw.at, windows, "template", <<>>)
       IN  /\ dicts' = c.heap
           /\ trials' = Append(trials, c.trial)
    /\ template' = Len(trials) + 1
    /\ threading' = "inter"
    /\ UNCHANGED <<environ0, windows, env>>
    /\ UNCHANGED <<tvars, rvars, cvars, mvars, qvars>>

\* lines 489-496: the template of the search of a combination, made with
\* env.copy()
SweepTemplate ==
    /\ env # None
    /\ threading \in {"none", "inter"}
    /\ Len(trials) < MaxTrials
    /\ MakeTrial(env[1].at, "template", env[1].made, "none", 0)
    /\ template' = Len(trials) + 1
    /\ \E omp \in BOOLEAN : threading' = IF omp THEN "omp" ELSE "intra"
    /\ UNCHANGED <<environ0, windows, env>>
    /\ UNCHANGED <<tvars, rvars, cvars, mvars, qvars>>

\* lines 218-234 and 254-271: the PerfTestParams of a probe, made with
\* test_params.env_to_set.copy()
ProbeParam ==
    /\ template # 0
    /\ Len(trials) < MaxTrials
    /\ \E t \in 2..MaxEnvThreads :
         MakeTrial(trials[template].env_to_set, "probe", trials[template].own,
                   threading, t)
    /\ UNCHANGED <<environ0, windows, env, template, threading>>
    /\ UNCHANGED <<tvars, rvars, cvars, mvars, qvars>>

\* lines 503-516: the combined candidate, made with env.copy()
CombinedCandidate ==
    /\ env # None
    /\ threading \in {"intra", "omp"}
    /\ Len(trials) < MaxTrials
    /\ \E t \in 2..MaxEnvThreads :
         MakeTrial(env[1].at, "candidate", env[1].made, threading, t)
    /\ UNCHANGED <<environ0, windows, env, template, threading>>
    /\ UNCHANGED <<tvars, rvars, cvars, mvars, qvars>>

\* lines 519-527: the defaults candidate, made with env.copy()
DefaultsCandidate ==
    /\ env # None
    /\ threading \in {"intra", "omp"}
    /\ Len(trials) < MaxTrials
    /\ MakeTrial(env[1].at, "candidate", env[1].made, "none", 0)
    /\ UNCHANGED <<environ0, windows, env, template, threading>>
    /\ UNCHANGED <<tvars, rvars, cvars, mvars, qvars>>

NextEnv ==
    \/ MainEnv \/ InterTemplate \/ SweepTemplate \/ ProbeParam
    \/ CombinedCandidate \/ DefaultsCandidate

InitEnv ==
    /\ environ0 \in Environs
    /\ dicts = <<environ0>>
    /\ windows \in BOOLEAN
    /\ env = None
    /\ template = 0
    /\ threading = "none"
    /\ trials = <<>>
    /\ TunerIdle
    /\ RunnerIdle
    /\ SweepIdle
    /\ MainIdle
    /\ RecordIdle

SpecEnv == InitEnv /\ [][NextEnv]_vars

(***************************************************************************)
(* Claims about the environment of the trials                              *)
(***************************************************************************)

\* the child environment of trial x holds the two thread variables exactly as
\* the overrides of x say
OnlyOwnValues(x) ==
    \A n \in ThreadVars :
        IF n \in DOMAIN x.own
          THEN n \in DOMAIN dicts[x.env] /\ dicts[x.env][n] = x.own[n]
          ELSE n \notin DOMAIN dicts[x.env]

\* C18: after any sequence of trial constructions and probes, the ambient
\* process environment and the template trial's own override mapping are
\* unchanged, and the child environment of each trial holds OMP_NUM_THREADS and
\* OMP_WAIT_POLICY only with the values of that trial's own overrides (absent
\* otherwise); a value set for one probe never appears in another trial.
C18_EnvironmentsScoped ==
    Len(dicts) >= 1 =>
        /\ dicts[1] = environ0
        /\ \A i \in 1..Len(trials) :
             /\ trials[i].role = "template" =>
                  dicts[trials[i].env_to_set] = trials[i].own
             /\ OnlyOwnValues(trials[i])

\* os.environ holds stale values of both variables, the template overrides
\* OMP_WAIT_POLICY, and two probes of it have set different thread counts
C18_Witness ==
    /\ Len(trials) = 3
    /\ DOMAIN environ0 = ThreadVars
    /\ trials[1].role = "template"
    /\ trials[1].own = [n \in {"OMP_WAIT_POLICY"} |-> "ACTIVE"]
    /\ trials[2].role = "probe" /\ trials[3].role = "probe"
    /\ threading = "omp"
    /\ dicts[trials[2].env]["OMP_NUM_THREADS"] = "2"
    /\ dicts[trials[3].env]["OMP_NUM_THREADS"] = "3"
    /\ dicts[trials[3].env]["OMP_WAIT_POLICY"] = "ACTIVE"

(***************************************************************************)
(* The record of a successful trial in the report (lines 564-577)          *)
(*                                                                         *)
(* test.latencies is the list that line 197 sorted, in seconds.  The model *)
(* counts the samples in nanoseconds; the record holds milliseconds        *)
(* rounded to five decimals, counted here in units of 10^-5 ms.            *)
(***************************************************************************)

\* the sample values of the trial, in nanoseconds; none of them is half-way
\* between two multiples of 10^-5 ms
SampleValues == <<4, 16, 27>>

\* a copies of the first value, then b of the second, then c of the third:
\* the lists that latencies.sort() of line 197 leaves
SortedSamples(a, b, c) ==
    [i \in 1..(a + b + c) |->
        IF i <= a THEN SampleValues[1]
        ELSE IF i <= a + b THEN SampleValues[2] ELSE SampleValues[3]]

\* round(x * 1000, 5) of lines 569 and 571, for x nanoseconds
ToMs(x) == (x + 5) \div 10

\* int(num_latencies * .9) and int(num_latencies * .95), as num/den
PercentileIndexUp(n, num, den) == (n * num + den - 1) \div den

PercentileIndex(n, num, den) == (n * num) \div den

\* test.latencies[i], Python's indices starting at 0
Sample(i) == q_latencies[i + 1]

\* lines 564-577: the record of the trial (its percentile entries)
WriteRecord ==
    /\ qpc = "listed"
    /\ LET n    == Len(q_latencies)
           rec0 == <<>>
           rec1 == IF n >= 10
                     THEN DictUpdate(rec0, [k \in {"p90"} |->
                              ToMs(Sample(PercentileIndex(n, 9, 10)))])
                     ELSE rec0
           rec2 == IF n >= 20
                     THEN DictUpdate(rec1, [k \in {"p95"} |->
                              ToMs(Sample(PercentileIndex(n, 19, 20)))])
                     ELSE rec1
       IN  json_record' = Some(rec2)
    /\ qpc' = "written"
    /\ UNCHANGED q_latencies
    /\ UNCHANGED <<tvars, rvars, cvars, mvars, hvars>>

NextRecord == WriteRecord

InitRecord ==
    /\ qpc = "listed"
    /\ \E a \in 0..MaxSamples, b \in 0..MaxSamples, c \in 0..MaxSamples :
         /\ a + b + c <= MaxSamples
         /\ q_latencies = SortedSamples(a, b, c)
    /\ json_record = None
    /\ TunerIdle
    /\ RunnerIdle
    /\ SweepIdle
    /\ MainIdle
    /\ EnvIdle

SpecRecord == InitRecord /\ [][NextRecord]_vars

(***************************************************************************)
(* Claims about the percentiles of the report                              *)
(***************************************************************************)

\* k = floor(n * num / den)
IsFloor(k, n, num, den) == den * k <= num * n /\ num * n < den * (k + 1)

\* the record holds `key` with the sample at index floor(n * num / den),
\* which is inside the list
HoldsPercentile(key, num, den) ==
    /\ key \in DOMAIN json_record[1]
    /\ \E k \in 0..(Len(q_latencies) - 1) :
         /\ IsFloor(k, Len(q_latencies), num, den)
         /\ json_record[1][key] = ToMs(q_latencies[k + 1])

\* C20: for an ascending latency sequence of n samples, the report holds p90
\* exactly when n >= 10 and p95 exactly when n >= 20 (so p95 present implies
\* p90 present); p90 is the sample at index floor(n*0.90) and p95 the sample at
\* index floor(n*0.95), and both indices are always inside the sequence.
C20_PercentilesByCount ==
    qpc = "written" =>
        /\ IF Len(q_latencies) >= 10
             THEN HoldsPercentile("p90", 9, 10)
             ELSE "p90" \notin DOMAIN json_record[1]
        /\ IF Len(q_latencies) >= 20
             THEN HoldsPercentile("p95", 19, 20)
             ELSE "p95" \notin DOMAIN json_record[1]
        /\ "p95" \in DOMAIN json_record[1] => "p90" \in DOMAIN json_record[1]

\* a record written for 15 samples whose fourteenth and fifteenth differ: it
\* holds p90, the fourteenth, and no p95
C20_Witness ==
    /\ qpc = "written"
    /\ Len(q_latencies) = 15
    /\ q_latencies[14] # q_latencies[15]
    /\ DOMAIN json_record[1] = {"p90"}
    /\ json_record[1]["p90"] = ToMs(q_latencies[14])

====
